---------------------------- MODULE Spec2Model ----------------------------
(***************************************************************************)
(* A model of Naiver-Strokes-Audit.py: the HardingYangMillsVerifier run.   *)
(*                                                                         *)
(* Python floats are IEEE-754 binary64.  TLC's integers are 32 bits wide,  *)
(* so naturals of arbitrary size are kept as little-endian sequences of    *)
(* limbs in base 2^12 (index 1 is the least significant limb, the last     *)
(* limb is not 0; <<>> is 0) and a double is a record [s, m, e] of value   *)
(* (-1)^s * m * 2^e with m either 0 or exactly 53 bits long.  Every        *)
(* arithmetic operation computes the exact result and rounds it once, to   *)
(* nearest, ties to even, as the hardware does.  All values of a run are   *)
(* normal doubles far from the overflow and underflow thresholds, so       *)
(* exponents are unbounded here.                                           *)
(***************************************************************************)
EXTENDS Integers, Sequences, FiniteSets, TLC

(***************************************************************************)
(* Naturals of arbitrary size, as limb sequences.  A product of two limbs  *)
(* is below 2^24, so a column of a schoolbook product fits a TLC integer.  *)
(***************************************************************************)
LimbBits == 12

Base == 2 ^ LimbBits

\* TLC evaluates an operator's arguments on demand.  Eager(v, e) is e, with
\* v evaluated first, so that the arguments a recursion accumulates are
\* values and not chains of pending computations.
Eager(v, e) == IF v = v THEN e ELSE e

Max(x, y) == IF x >= y THEN x ELSE y

Min(x, y) == IF x <= y THEN x ELSE y

RECURSIVE Trim(_)
Trim(a) ==
    IF a = <<>> THEN <<>>
    ELSE IF a[Len(a)] # 0 THEN a
    ELSE Trim(SubSeq(a, 1, Len(a) - 1))

RECURSIVE NatOfInt(_)
NatOfInt(n) == IF n = 0 THEN <<>> ELSE <<n % Base>> \o NatOfInt(n \div Base)

\* For naturals below 2^31 only.
RECURSIVE IntOfNat(_)
IntOfNat(a) == IF a = <<>> THEN 0 ELSE Head(a) + Base * IntOfNat(Tail(a))

Limb(a, i) == IF i >= 1 /\ i <= Len(a) THEN a[i] ELSE 0

\* The comparison of two naturals: -1, 0 or 1.
NCmp(a, b) ==
    IF Len(a) > Len(b) THEN 1
    ELSE IF Len(a) < Len(b) THEN -1
    ELSE LET D == {i \in 1..Len(a) : a[i] # b[i]}
         IN  IF D = {} THEN 0
             ELSE LET k == CHOOSE i \in D : \A j \in D : j <= i
                  IN  IF a[k] > b[k] THEN 1 ELSE -1

\* Carries resolved from limb i upwards; cols[i] may exceed a limb.
RECURSIVE Carry(_, _, _)
Carry(cols, i, c) ==
    IF i > Len(cols)
    THEN (IF c = 0 THEN <<>> ELSE <<c % Base>> \o Carry(cols, i, c \div Base))
    ELSE LET s == cols[i] + c
         IN  <<s % Base>> \o Carry(cols, i + 1, s \div Base)

NAdd(a, b) ==
    Carry([i \in 1..Max(Len(a), Len(b)) |-> Limb(a, i) + Limb(b, i)], 1, 0)

\* a - b for a >= b.
RECURSIVE NSubFrom(_, _, _, _)
NSubFrom(a, b, i, c) ==
    IF i > Len(a) THEN <<>>
    ELSE LET d == a[i] - Limb(b, i) - c
         IN  <<d % Base>> \o NSubFrom(a, b, i + 1, IF d < 0 THEN 1 ELSE 0)

NSub(a, b) == Trim(NSubFrom(a, b, 1, 0))

\* a * k for an integer 0 <= k < 2^18.
NMulSmall(a, k) ==
    IF k = 0 THEN <<>> ELSE Carry([i \in 1..Len(a) |-> a[i] * k], 1, 0)

\* The sum of a[i] * b[k + 1 - i] over i in lo..hi: column k of a * b.
RECURSIVE ColSum(_, _, _, _, _)
ColSum(a, b, k, lo, hi) ==
    IF lo > hi THEN 0
    ELSE a[lo] * b[k + 1 - lo] + ColSum(a, b, k, lo + 1, hi)

NMul(a, b) ==
    IF a = <<>> \/ b = <<>> THEN <<>>
    ELSE Carry([k \in 1..(Len(a) + Len(b) - 1) |->
                  ColSum(a, b, k, Max(1, k + 1 - Len(b)), Min(k, Len(a)))], 1, 0)

\* a^n, by repeated squaring.
RECURSIVE NPow(_, _)
NPow(a, n) ==
    IF n = 0 THEN <<1>>
    ELSE LET h == NPow(a, n \div 2)
         IN  IF n % 2 = 0 THEN NMul(h, h) ELSE NMul(a, NMul(h, h))

\* The number of bits of a limb v.
RECURSIVE LimbLen(_)
LimbLen(v) == IF v = 0 THEN 0 ELSE 1 + LimbLen(v \div 2)

BitLen(a) == IF a = <<>> THEN 0 ELSE LimbBits * (Len(a) - 1) + LimbLen(a[Len(a)])

\* Bit n of a; bit 0 is the least significant.
TestBit(a, n) == (Limb(a, (n \div LimbBits) + 1) \div (2 ^ (n % LimbBits))) % 2

\* Whether one of the n lowest bits of a is set.
LowBitsSet(a, n) ==
    \/ \E i \in 1..Min(n \div LimbBits, Len(a)) : a[i] # 0
    \/ Limb(a, (n \div LimbBits) + 1) % (2 ^ (n % LimbBits)) # 0

\* a * 2^n.
NShl(a, n) ==
    IF a = <<>> THEN <<>>
    ELSE [i \in 1..(n \div LimbBits) |-> 0] \o NMulSmall(a, 2 ^ (n % LimbBits))

\* floor(a / 2^n).
NShr(a, n) ==
    LET q == n \div LimbBits
        r == n % LimbBits
    IN  IF q >= Len(a) THEN <<>>
        ELSE Trim([i \in 1..(Len(a) - q) |->
                     (a[i + q] \div (2 ^ r))
                       + (Limb(a, i + q + 1) % (2 ^ r)) * (2 ^ (LimbBits - r))])

\* The largest limb d with d * b <= r, its bits found from bit k downwards.
RECURSIVE QuotLimb(_, _, _, _)
QuotLimb(r, b, k, d) ==
    IF k = 0 THEN d
    ELSE LET c == d + 2 ^ (k - 1)
         IN  IF NCmp(NMulSmall(b, c), r) <= 0
             THEN QuotLimb(r, b, k - 1, c)
             ELSE QuotLimb(r, b, k - 1, d)

\* Long division, from limb i of a downwards: quotient q and remainder r so far.
RECURSIVE NDivFrom(_, _, _, _, _)
NDivFrom(a, b, i, q, r) ==
    IF i = 0 THEN [q |-> Trim(q), r |-> r]
    ELSE LET r2 == Trim(<<a[i]>> \o r)
             d  == QuotLimb(r2, b, LimbBits, 0)
             qn == <<d>> \o q
             rn == NSub(r2, NMulSmall(b, d))
         IN  Eager(<<qn, rn>>, NDivFrom(a, b, i - 1, qn, rn))

\* a divided by b # 0: [q |-> the quotient, r |-> the remainder].
NDivMod(a, b) == NDivFrom(a, b, Len(a), <<>>, <<>>)

\* The integer square root.  The root r so far is kept while r * r <= a;
\* NSqrtBits tries bits lo + k - 1 down to lo of the root.
RECURSIVE NSqrtBits(_, _, _, _)
NSqrtBits(a, lo, k, r) ==
    IF k = 0 THEN r
    ELSE LET c == NAdd(r, NShl(<<1>>, lo + k - 1))
         IN  IF NCmp(NMul(c, c), a) <= 0
             THEN NSqrtBits(a, lo, k - 1, c)
             ELSE NSqrtBits(a, lo, k - 1, r)

\* The limbs j down to 1 of the root.
RECURSIVE NSqrtFrom(_, _, _)
NSqrtFrom(a, j, r) ==
    IF j = 0 THEN r
    ELSE LET rn == NSqrtBits(a, LimbBits * (j - 1), LimbBits, r)
         IN  Eager(rn, NSqrtFrom(a, j - 1, rn))

NSqrt(a) == NSqrtFrom(a, (Len(a) + 1) \div 2, <<>>)

(***************************************************************************)
(* IEEE-754 binary64, round to nearest, ties to even.                      *)
(***************************************************************************)
FZero == [s |-> 0, m |-> <<>>, e |-> 0]

\* The double nearest to (-1)^s * (M + f) * 2^E, where 0 <= f < 1 and
\* f > 0 exactly when sticky.  M is at least 55 bits long when sticky.
RoundPack(s, M, E, sticky) ==
    LET n == BitLen(M)
    IN  IF M = <<>> THEN FZero
        ELSE IF n <= 53 THEN [s |-> s, m |-> NShl(M, 53 - n), e |-> E - (53 - n)]
        ELSE LET k    == n - 53
                 kept == NShr(M, k)
                 st   == sticky \/ LowBitsSet(M, k - 1)
                 up   == TestBit(M, k - 1) = 1 /\ (st \/ TestBit(kept, 0) = 1)
                 r    == IF up THEN NAdd(kept, <<1>>) ELSE kept
             IN  IF BitLen(r) > 53
                 THEN [s |-> s, m |-> NShr(r, 1), e |-> E + k + 1]
                 ELSE [s |-> s, m |-> r, e |-> E + k]

\* The double nearest to (-1)^s * (A / B) * 2^E, for naturals A and B # 0.
FRat(s, A, B, E) ==
    IF A = <<>> THEN FZero
    ELSE LET sh == Max(0, 56 + BitLen(B) - BitLen(A))
             d  == NDivMod(NShl(A, sh), B)
         IN  RoundPack(s, d.q, E - sh, d.r # <<>>)

\* A decimal literal of the source: the double nearest to n * 10^p.
Lit(n, p) ==
    IF p >= 0
    THEN RoundPack(0, NMul(NatOfInt(n), NPow(NatOfInt(10), p)), 0, FALSE)
    ELSE FRat(0, NatOfInt(n), NPow(NatOfInt(10), 0 - p), 0)

fneg(x) == IF x.m = <<>> THEN x ELSE [x EXCEPT !.s = 1 - x.s]

fadd(x, y) ==
    IF x.m = <<>> THEN y
    ELSE IF y.m = <<>> THEN x
    ELSE LET e == Min(x.e, y.e)
             X == NShl(x.m, x.e - e)
             Y == NShl(y.m, y.e - e)
             c == NCmp(X, Y)
         IN  IF x.s = y.s THEN RoundPack(x.s, NAdd(X, Y), e, FALSE)
             ELSE IF c = 0 THEN FZero
             ELSE IF c > 0 THEN RoundPack(x.s, NSub(X, Y), e, FALSE)
             ELSE RoundPack(y.s, NSub(Y, X), e, FALSE)

fsub(x, y) == fadd(x, fneg(y))

fmul(x, y) ==
    IF x.m = <<>> \/ y.m = <<>> THEN FZero
    ELSE RoundPack((x.s + y.s) % 2, NMul(x.m, y.m), x.e + y.e, FALSE)

\* x / y for y # 0.
fdiv(x, y) == FRat((x.s + y.s) % 2, x.m, y.m, x.e - y.e)

\* The correctly rounded root of the natural M * 2^E, E even.
RootPack(M, E) ==
    LET r == NSqrt(M)
    IN  RoundPack(0, r, E \div 2, NMul(r, r) # M)

\* numpy.sqrt of x >= 0, correctly rounded as IEEE-754 requires.  The
\* radicand is scaled by an even power of two so that the root has over
\* 55 bits.
fsqrt(x) ==
    IF x.m = <<>> THEN FZero
    ELSE LET odd == x.e % 2
         IN  RootPack(NShl(x.m, 60 + odd), x.e - 60 - odd)

\* x ** 1.5 for x >= 0: the double nearest to the root of x^3.
fpow15(x) ==
    IF x.m = <<>> THEN FZero
    ELSE LET odd == (3 * x.e) % 2
         IN  RootPack(NShl(NMul(x.m, NMul(x.m, x.m)), odd), 3 * x.e - odd)

\* The comparison of two doubles: -1, 0 or 1.
fcmp(x, y) ==
    LET d == fsub(x, y)
    IN  IF d.m = <<>> THEN 0 ELSE IF d.s = 1 THEN -1 ELSE 1

flt(x, y) == fcmp(x, y) < 0

fle(x, y) == fcmp(x, y) <= 0

fgt(x, y) == fcmp(x, y) > 0

\* The double of an integer 0 <= n < 2^31.
FInt(n) == RoundPack(0, NatOfInt(n), 0, FALSE)

(***************************************************************************)
(* Python's fixed-precision float formatting, as the bytes of the UTF-8    *)
(* encoding of the text.  CPython formats the exact binary value, rounded  *)
(* to the requested digits, ties to even.                                  *)
(***************************************************************************)
\* The integer nearest to A / B, ties to even, for naturals A and B # 0.
RoundHalfEven(A, B) ==
    LET d == NDivMod(A, B)
        c == NCmp(NShl(d.r, 1), B)
    IN  IF c > 0 \/ (c = 0 /\ TestBit(d.q, 0) = 1) THEN NAdd(d.q, <<1>>) ELSE d.q

\* |x| * 10^p = Num / Den for a double x # 0 and an integer p.
ScaledNum(x, p) ==
    NMul(NShl(x.m, Max(x.e, 0)), NPow(NatOfInt(10), Max(p, 0)))

ScaledDen(x, p) ==
    NShl(NPow(NatOfInt(10), Max(0 - p, 0)), Max(0 - x.e, 0))

\* The integer nearest to |x| * 10^p.
ScaledInt(x, p) ==
    IF x.m = <<>> THEN <<>> ELSE RoundHalfEven(ScaledNum(x, p), ScaledDen(x, p))

\* The decimal digits of a natural, most significant first; <<>> for 0.
RECURSIVE NDigits(_)
NDigits(N) ==
    IF N = <<>> THEN <<>>
    ELSE LET d == NDivMod(N, NatOfInt(10))
         IN  Append(NDigits(d.q), IntOfNat(d.r))

\* The digits ds padded on the left with zeros to at least n digits.
ZeroPad(ds, n) == [i \in 1..(n - Len(ds)) |-> 0] \o ds

\* The ASCII codes of a digit sequence.
DigitChars(ds) == [i \in 1..Len(ds) |-> 48 + ds[i]]

\* The decimal point and the digits after it; nothing when there are none.
PointChars(ds) == IF ds = <<>> THEN <<>> ELSE <<46>> \o DigitChars(ds)

SignChars(x) == IF x.s = 1 THEN <<45>> ELSE <<>>

\* format(x, ".<prec>f")
format_f(x, prec) ==
    LET ds == ZeroPad(NDigits(ScaledInt(x, prec)), prec + 1)
        n  == Len(ds) - prec
    IN  SignChars(x) \o DigitChars(SubSeq(ds, 1, n))
          \o PointChars(SubSeq(ds, n + 1, Len(ds)))

\* Whether |x| >= 10^d, for a double x # 0.
GeTenPow(x, d) == NCmp(ScaledNum(x, 0 - d), ScaledDen(x, 0 - d)) >= 0

\* The decimal exponent of a double x # 0: the d with 10^d <= |x| < 10^(d+1).
\* |x| lies in [2^(e+52), 2^(e+53)), which places d within one of the
\* estimate d0.
DecimalExponent(x) ==
    LET d0 == ((x.e + 52) * 30103) \div 100000
    IN  IF GeTenPow(x, d0 + 1) THEN d0 + 1
        ELSE IF GeTenPow(x, d0) THEN d0
        ELSE d0 - 1

\* The exponent part of the e format: a sign and at least two digits.
ExponentChars(d) ==
    LET a == IF d < 0 THEN 0 - d ELSE d
    IN  <<101, IF d < 0 THEN 45 ELSE 43>>
          \o DigitChars(ZeroPad(NDigits(NatOfInt(a)), 2))

\* format(x, ".<prec>e")
format_e(x, prec) ==
    IF x.m = <<>>
    THEN SignChars(x) \o <<48>> \o PointChars([i \in 1..prec |-> 0])
           \o ExponentChars(0)
    ELSE LET d0 == DecimalExponent(x)
             n0 == ScaledInt(x, prec - d0)
             up == NCmp(n0, NPow(NatOfInt(10), prec + 1)) >= 0
             d  == IF up THEN d0 + 1 ELSE d0
             ds == NDigits(IF up THEN NPow(NatOfInt(10), prec) ELSE n0)
         IN  SignChars(x) \o DigitChars(<<ds[1]>>)
               \o PointChars(SubSeq(ds, 2, Len(ds))) \o ExponentChars(d)

(***************************************************************************)
(* hashlib.sha256 (FIPS 180-4).  A 32-bit word is a pair <<hi, lo>> of     *)
(* 16-bit halves.                                                          *)
(***************************************************************************)
RECURSIVE Xor16(_, _)
Xor16(a, b) ==
    IF a = 0 THEN b
    ELSE IF b = 0 THEN a
    ELSE ((a + b) % 2) + 2 * Xor16(a \div 2, b \div 2)

RECURSIVE And16(_, _)
And16(a, b) ==
    IF a = 0 \/ b = 0 THEN 0
    ELSE ((a % 2) * (b % 2)) + 2 * And16(a \div 2, b \div 2)

WXor(x, y) == <<Xor16(x[1], y[1]), Xor16(x[2], y[2])>>

WAnd(x, y) == <<And16(x[1], y[1]), And16(x[2], y[2])>>

WNot(x) == <<65535 - x[1], 65535 - x[2]>>

\* Addition modulo 2^32.
WAdd(x, y) ==
    LET lo == x[2] + y[2]
    IN  <<(x[1] + y[1] + (lo \div 65536)) % 65536, lo % 65536>>

\* Rotation and shift to the right by 0 <= n < 32 bits.
Rotr(x, n) ==
    LET y == IF n >= 16 THEN <<x[2], x[1]>> ELSE x
        k == n % 16
    IN  <<(y[1] \div (2 ^ k)) + (y[2] % (2 ^ k)) * (2 ^ (16 - k)),
          (y[2] \div (2 ^ k)) + (y[1] % (2 ^ k)) * (2 ^ (16 - k))>>

Shr(x, n) ==
    IF n >= 16 THEN <<0, x[1] \div (2 ^ (n - 16))>>
    ELSE <<x[1] \div (2 ^ n),
           (x[2] \div (2 ^ n)) + (x[1] % (2 ^ n)) * (2 ^ (16 - n))>>

Ch(x, y, z) == WXor(WAnd(x, y), WAnd(WNot(x), z))

Maj(x, y, z) == WXor(WXor(WAnd(x, y), WAnd(x, z)), WAnd(y, z))

BigSigma0(x) == WXor(WXor(Rotr(x, 2), Rotr(x, 13)), Rotr(x, 22))

BigSigma1(x) == WXor(WXor(Rotr(x, 6), Rotr(x, 11)), Rotr(x, 25))

SmallSigma0(x) == WXor(WXor(Rotr(x, 7), Rotr(x, 18)), Shr(x, 3))

SmallSigma1(x) == WXor(WXor(Rotr(x, 17), Rotr(x, 19)), Shr(x, 10))

ShaK ==
    << <<17034, 12184>>, <<28983, 17553>>, <<46528, 64463>>, <<59829, 56229>>,
       <<14678, 49755>>, <<23025, 4593>>, <<37439, 33444>>, <<43804, 24277>>,
       <<55303, 43672>>, <<4739, 23297>>, <<9265, 34238>>, <<21772, 32195>>,
       <<29374, 23924>>, <<32990, 45566>>, <<39900, 1703>>, <<49563, 61812>>,
       <<58523, 27073>>, <<61374, 18310>>, <<4033, 40390>>, <<9228, 41420>>,
       <<11753, 11375>>, <<19060, 33962>>, <<23728, 43484>>, <<30457, 35034>>,
       <<38974, 20818>>, <<43057, 50797>>, <<45059, 10184>>, <<48985, 32711>>,
       <<50912, 3059>>, <<54695, 37191>>, <<1738, 25425>>, <<5161, 10599>>,
       <<10167, 2693>>, <<11803, 8504>>, <<19756, 28156>>, <<21304, 3347>>,
       <<25866, 29524>>, <<30314, 2747>>, <<33218, 51502>>, <<37490, 11397>>,
       <<41663, 59553>>, <<43034, 26187>>, <<49739, 35696>>, <<51052, 20899>>,
       <<53650, 59417>>, <<54937, 1572>>, <<62478, 13701>>, <<4202, 41072>>,
       <<6564, 49430>>, <<7735, 27656>>, <<10056, 30540>>, <<13488, 48309>>,
       <<14620, 3251>>, <<20184, 43594>>, <<23452, 51791>>, <<26670, 28659>>,
       <<29839, 33518>>, <<30885, 25455>>, <<33992, 30740>>, <<36039, 520>>,
       <<37054, 65530>>, <<42064, 27883>>, <<48889, 41975>>, <<50801, 30962>> >>

ShaH0 ==
    << <<27145, 58983>>, <<47975, 44677>>, <<15470, 62322>>, <<42319, 62778>>,
       <<20750, 21119>>, <<39685, 26764>>, <<8067, 55723>>, <<23520, 52505>> >>

\* The message padded to whole 64-byte blocks: a 1 bit, zeros, and the
\* length in bits as a 64-bit big-endian number (messages below 2^12 bytes).
ShaPad(msg) ==
    LET n    == Len(msg)
        bits == 8 * n
        z    == (119 - (n % 64)) % 64
    IN  msg \o <<128>> \o [i \in 1..z |-> 0]
          \o <<0, 0, 0, 0, 0, 0, bits \div 256, bits % 256>>

\* Word t (from 0) of the block at byte offset off.
BlockWord(p, off, t) ==
    <<p[off + 4 * t + 1] * 256 + p[off + 4 * t + 2],
      p[off + 4 * t + 3] * 256 + p[off + 4 * t + 4]>>

\* The message schedule: w holds words 0..Len(w)-1; n more are appended.
RECURSIVE ShaExtend(_, _)
ShaExtend(w, n) ==
    IF n = 0 THEN w
    ELSE LET t  == Len(w)
             wt == WAdd(WAdd(SmallSigma1(w[t - 1]), w[t - 6]),
                        WAdd(SmallSigma0(w[t - 14]), w[t - 15]))
             w2 == Append(w, wt)
         IN  Eager(w2, ShaExtend(w2, n - 1))

RECURSIVE ShaSchedule(_, _)
ShaSchedule(w, chunks) ==
    IF chunks = 0 THEN w
    ELSE LET w2 == ShaExtend(w, 8)
         IN  Eager(w2, ShaSchedule(w2, chunks - 1))

\* One round: st is the working variables <<a, b, c, d, e, f, g, h>>.
ShaRound(st, w, t) ==
    LET t1 == WAdd(WAdd(WAdd(st[8], BigSigma1(st[5])), Ch(st[5], st[6], st[7])),
                   WAdd(ShaK[t + 1], w[t + 1]))
        t2 == WAdd(BigSigma0(st[1]), Maj(st[1], st[2], st[3]))
    IN  <<WAdd(t1, t2), st[1], st[2], st[3], WAdd(st[4], t1), st[5], st[6], st[7]>>

\* n rounds from round t.
RECURSIVE ShaRounds(_, _, _, _)
ShaRounds(st, w, t, n) ==
    IF n = 0 THEN st
    ELSE LET s2 == ShaRound(st, w, t)
         IN  Eager(s2, ShaRounds(s2, w, t + 1, n - 1))

\* The 64 rounds, eight at a time from chunk c.
RECURSIVE ShaAllRounds(_, _, _)
ShaAllRounds(st, w, c) ==
    IF c = 8 THEN st
    ELSE LET s2 == ShaRounds(st, w, 8 * c, 8)
         IN  Eager(s2, ShaAllRounds(s2, w, c + 1))

\* The hash value h after the block at byte offset off of the padded message p.
ShaCompress(h, p, off) ==
    LET w  == ShaSchedule([t \in 1..16 |-> BlockWord(p, off, t - 1)], 6)
        st == ShaAllRounds(h, w, 0)
    IN  [i \in 1..8 |-> WAdd(h[i], st[i])]

RECURSIVE ShaBlocks(_, _, _)
ShaBlocks(h, p, off) ==
    IF off >= Len(p) THEN h
    ELSE LET h2 == ShaCompress(h, p, off)
         IN  Eager(h2, ShaBlocks(h2, p, off + 64))

\* hashlib.sha256(msg): the digest as eight words.
sha256(msg) == ShaBlocks(ShaH0, ShaPad(msg), 0)

\* The ASCII code of the lowercase hexadecimal digit of a nibble.
HexChar(v) == IF v < 10 THEN 48 + v ELSE 87 + v

\* .hexdigest(): 64 lowercase hexadecimal digits.
hexdigest(h) ==
    [i \in 1..64 |->
        LET half == h[((i - 1) \div 8) + 1][(((i - 1) % 8) \div 4) + 1]
        IN  HexChar((half \div (16 ^ (3 - ((i - 1) % 4)))) % 16)]

\* str.upper() on ASCII text.
upper(str) ==
    [i \in 1..Len(str) |->
        IF str[i] >= 97 /\ str[i] <= 122 THEN str[i] - 32 ELSE str[i]]

(***************************************************************************)
(* The program.                                                            *)
(***************************************************************************)
VARIABLES
    pc,        \* the statement the process executes next
    globals,   \* the module-level names HBAR, C, L_P, G_COUPLING, EPSILON
    self,      \* the verifier's attributes S_H and F_H
    quad_err,  \* the error of scipy's dblquad on the field function
    frame,     \* the local names of run_complete_verification
    phase4,    \* the local names of the last call of phase_4_sobolev_boundary
    results,   \* the record run_complete_verification returned
    stdout,    \* the outcome lines printed so far: <<check, message>>
    trace      \* the calls made so far, in order

vars == <<pc, globals, self, quad_err, frame, phase4, results, stdout, trace>>

\* The number of error steps of 2^-53 sampled on each side of the exact
\* integral for dblquad's result.
MaxErrSteps == 6

\* Module-level constants, lines 14-18.
HBAR == Lit(1054571817, -43)

C == Lit(299792458, 0)

L_P == Lit(1616255, -41)

G_COUPLING == Lit(10, -1)

EPSILON == Lit(1, -40)

(***************************************************************************)
(* The field function and its integral.  scipy's dblquad is QUADPACK's     *)
(* adaptive rule, outside the repository; it is modelled by its contract:  *)
(* the exact integral, off by an error within the default tolerance        *)
(* epsabs = epsrel = 1.49e-8.  The exact integral is computed from the     *)
(* integrand by the midpoint rule on 4 x 4 nodes x = (2i+1)/8, which is    *)
(* exact for the trigonometric terms of periods 1 and 1/2, and at whose    *)
(* nodes every angle is a multiple of pi/2.                                *)
(***************************************************************************)
\* sin(n * pi / 2) and cos(n * pi / 2).
SinQ(n) == CASE n % 4 = 0 -> 0 [] n % 4 = 1 -> 1 [] n % 4 = 2 -> 0 [] OTHER -> -1

CosQ(n) == SinQ(n + 1)

\* Theta(A) at the node x = (2i+1)/8, y = (2j+1)/8, in twentieths:
\* F_norm_sq = 1.0 + 0.1 * sin(2 pi (x + y)),
\* winding = 0.05 * cos(4 pi x) * sin(4 pi y).
\* A variant of the density whose constant term is 1.05 instead of 1.
density_with_offset(i, j) ==
    21 + 2 * SinQ(i + j + 1) + CosQ(2 * i + 1) * SinQ(2 * j + 1)

topological_density_theta_A(i, j) ==
    LET F_norm_sq == 20 + 2 * SinQ(i + j + 1)
        winding   == CosQ(2 * i + 1) * SinQ(2 * j + 1)
    IN  F_norm_sq + winding

RECURSIVE SumNodes(_)
SumNodes(n) ==
    IF n = 0 THEN 0
    ELSE topological_density_theta_A((n - 1) \div 4, (n - 1) % 4) + SumNodes(n - 1)

\* The exact integral over [0,1] x [0,1]: the mean of the 16 node values.
ExactIntegral == FRat(0, NatOfInt(SumNodes(16)), NatOfInt(16 * 20), 0)

\* The errors sampled: k * 2^-53 and the two ends of the tolerance.
ErrStep(k) ==
    RoundPack(IF k < 0 THEN 1 ELSE 0, NatOfInt(IF k < 0 THEN 0 - k ELSE k), -53, FALSE)

QuadErrors ==
    {ErrStep(k) : k \in (0 - MaxErrSteps)..MaxErrSteps}
        \cup {Lit(149, -10), fneg(Lit(149, -10))}

\* dblquad(self.topological_density_theta_A, 0, 1, 0, 1)[0]
dblquad(err) == fadd(ExactIntegral, err)

\* 4 * G_COUPLING**2 * F_term, lines 35-36.
yang_mills_action(g, err) ==
    fmul(fmul(FInt(4), fmul(g.G_COUPLING, g.G_COUPLING)), dblquad(err))

(***************************************************************************)
(* The values the phases compute.                                          *)
(***************************************************************************)
\* self.S_H = (HBAR**1.5 * C) / np.sqrt(L_P), line 22.
harding_identity(g) == fdiv(fmul(fpow15(g.HBAR), g.C), fsqrt(g.L_P))

\* 'VERIFIED' if the check holds else 'FAILED', lines 63, 91 and 120.
check_message(ok) == IF ok THEN "VERIFIED" ELSE "FAILED"

\* str(bool), line 90.
bool_message(ok) == IF ok THEN "True" ELSE "False"

\* nonlinear_term = 1.0, line 59.
nonlinear_term == FInt(1)

\* gamma * (nonlinear_term)**(1/3), line 60.  nonlinear_term is 1.0, and
\* pow(1.0, y) is exactly 1.0 for every y.
damping_bound(gamma) == fmul(gamma, nonlinear_term)

\* nonlinear_term <= damping_bound, line 63.
damping_check(gamma) == fle(nonlinear_term, damping_bound(gamma))

\* A variant of the gap with the product subtracted from EPSILON.
mass_gap_subtracted(g, F_H, gamma) == fsub(g.EPSILON, fmul(F_H, gamma))

\* A variant of the gap that leaves EPSILON out.
mass_gap_without_epsilon(g, F_H, gamma) == fmul(F_H, gamma)

\* topo_term = self.F_H * gamma; delta = EPSILON + topo_term, lines 78-79.
mass_gap(g, F_H, gamma) == fadd(g.EPSILON, fmul(F_H, gamma))

\* delta > 0, lines 87 and 171.
positivity_check(delta) == fgt(delta, FZero)

\* gamma > -S_YM / self.F_H, line 88.
constraint_check(gamma, S_YM, F_H) == fgt(gamma, fdiv(fneg(S_YM), F_H))

\* The placeholder norms, lines 102-104.
u_norm == FInt(1)

grad_u_norm == Lit(8, -1)

grad2_u_norm == Lit(6, -1)

\* A variant of K that adds the same three norms in another order.
sobolev_K_reordered == fadd(fadd(grad2_u_norm, u_norm), grad_u_norm)

\* K = grad2_u_norm + grad_u_norm + u_norm, line 106.
sobolev_K == fadd(fadd(grad2_u_norm, grad_u_norm), u_norm)

\* Python's min of two floats: the first unless the second is smaller.
fmin(x, y) == IF flt(y, x) THEN y ELSE x

\* C = min(grad2_u_norm, grad_u_norm, u_norm) * 1.5, line 114.
stabilization_C == fmul(fmin(fmin(grad2_u_norm, grad_u_norm), u_norm), Lit(15, -1))

\* A variant of the bound that is the stabilization constant alone.
sobolev_bound_unscaled(S_HYM) == stabilization_C

\* sobolev_bound = C * S_HYM, line 118.
sobolev_bound(S_HYM) == fmul(stabilization_C, S_HYM)

\* K <= sobolev_bound, line 120.
sobolev_check(K, S_HYM) == fle(K, sobolev_bound(S_HYM))

\* A variant of phase 4 that declares C global, so line 114 rebinds it.
phase_4_rebinds_global(g, c) == [g EXCEPT !.C = c]

\* The module-level names after phase 4 bound its local name C to c: the
\* function has no global statement, so the assignment of line 114 binds a
\* local name and leaves the module's C alone.
phase_4_globals(g, c) == g

\* yang_mills_action() + self.F_H * gamma + delta, line 142.
hym_action(g, err, F_H, gamma, delta) ==
    fadd(fadd(yang_mills_action(g, err), fmul(F_H, gamma)), delta)

\* f"F_H:{F_H:.2e}|γ:{gamma:.6f}|Δ:{delta:.2e}|K:{K:.2f}".encode(), lines
\* 126-127: the UTF-8 bytes of the text.
state_data(F_H, gamma, delta, K) ==
    <<70, 95, 72, 58>> \o format_e(F_H, 2)
        \o <<124, 206, 179, 58>> \o format_f(gamma, 6)
        \o <<124, 206, 148, 58>> \o format_e(delta, 2)
        \o <<124, 75, 58>> \o format_f(K, 2)

\* A variant of the digest that hashes gamma at two decimals instead of six.
hash_of_short_gamma(F_H, gamma, delta, K) ==
    upper(SubSeq(hexdigest(sha256(
        <<70, 95, 72, 58>> \o format_e(F_H, 2)
            \o <<124, 206, 179, 58>> \o format_f(gamma, 2)
            \o <<124, 206, 148, 58>> \o format_e(delta, 2)
            \o <<124, 75, 58>> \o format_f(K, 2))), 1, 20))

\* hashlib.sha256(state_data.encode()).hexdigest()[:20].upper(), lines 127-128.
generate_quantum_ledger_hash(F_H, gamma, delta, K) ==
    upper(SubSeq(hexdigest(sha256(state_data(F_H, gamma, delta, K))), 1, 20))

\* The record returned, lines 164-172.
result_record(F_H, f) ==
    [F_H                 |-> F_H,
     gamma               |-> f.gamma,
     delta               |-> f.delta,
     K                   |-> f.K,
     S_HYM               |-> f.S_HYM,
     quantum_ledger_hash |-> f.qledger_hash,
     verified            |-> positivity_check(f.delta)]

\* A variant of the banner that reports the damping check and the flag.
banner_from_checks(r) == check_message(damping_check(r.gamma) /\ r.verified)

\* The closing line of the main block, line 179.
final_banner(r) == "PASSED"

(***************************************************************************)
(* The run.  A name not bound yet holds FZero (a number) or <<>> (text, a  *)
(* record); pc tells which names are bound.                                *)
(***************************************************************************)
\* The module-level names bound at import, lines 14-18.
module_globals ==
    [HBAR |-> HBAR, C |-> C, L_P |-> L_P, G_COUPLING |-> G_COUPLING, EPSILON |-> EPSILON]

Init ==
    /\ pc = "construct"
    /\ globals = module_globals
    /\ self = [S_H |-> FZero, F_H |-> FZero]
    /\ quad_err \in QuadErrors
    /\ frame = [gamma |-> FZero, delta |-> FZero, S_HYM |-> FZero,
                K |-> FZero, qledger_hash |-> <<>>]
    /\ phase4 = [K |-> FZero, C |-> FZero, sobolev_bound |-> FZero]
    /\ results = <<>>
    /\ stdout = <<>>
    /\ trace = <<>>

\* verifier = HardingYangMillsVerifier(), lines 21-23 and 175.
construct ==
    /\ pc = "construct"
    /\ self' = [S_H |-> harding_identity(globals), F_H |-> harding_identity(globals)]
    /\ trace' = Append(trace, "__init__")
    /\ pc' = "phase_1"
    /\ UNCHANGED <<globals, quad_err, frame, phase4, results, stdout>>

\* A variant of phase 2 that raises when the damping inequality fails.
phase_2_raising ==
    /\ pc = "phase_2"
    /\ LET gamma == dblquad(quad_err)
       IN  IF damping_check(gamma)
           THEN /\ frame' = [frame EXCEPT !.gamma = gamma]
                /\ stdout' = Append(stdout, <<"damping", "VERIFIED">>)
                /\ pc' = "phase_3"
           ELSE /\ stdout' = Append(stdout, <<"damping", "FAILED">>)
                /\ pc' = "raised"
                /\ UNCHANGED frame
    /\ trace' = trace \o <<"phase_2_damping_coefficient", "dblquad">>
    /\ UNCHANGED <<globals, self, quad_err, phase4, results>>

\* A variant of line 142 that reuses the action computed in phase 3.
compute_S_HYM_reusing ==
    /\ pc = "S_HYM"
    /\ frame' = [frame EXCEPT
                   !.S_HYM = hym_action(globals, quad_err, self.F_H, frame.gamma, frame.delta)]
    /\ pc' = "phase_4"
    /\ UNCHANGED <<globals, self, quad_err, phase4, results, stdout, trace>>

\* self.phase_1_regulator_energy_floor(), lines 38-46 and 138.
phase_1_regulator_energy_floor ==
    /\ pc = "phase_1"
    /\ stdout' = Append(stdout, <<"energy_floor", "VERIFIED">>)
    /\ trace' = Append(trace, "phase_1_regulator_energy_floor")
    /\ pc' = "phase_2"
    /\ UNCHANGED <<globals, self, quad_err, frame, phase4, results>>

\* gamma = self.phase_2_damping_coefficient(), lines 48-65 and 139.
phase_2_damping_coefficient ==
    /\ pc = "phase_2"
    /\ LET gamma == dblquad(quad_err)
       IN  /\ frame' = [frame EXCEPT !.gamma = gamma]
           /\ stdout' = Append(stdout, <<"damping", check_message(damping_check(gamma))>>)
    /\ trace' = trace \o <<"phase_2_damping_coefficient", "dblquad">>
    /\ pc' = "phase_3"
    /\ UNCHANGED <<globals, self, quad_err, phase4, results>>

\* delta = self.phase_3_mass_gap_solution(gamma), lines 67-93 and 140.
phase_3_mass_gap_solution ==
    /\ pc = "phase_3"
    /\ LET S_YM  == yang_mills_action(globals, quad_err)
           delta == mass_gap(globals, self.F_H, frame.gamma)
       IN  /\ frame' = [frame EXCEPT !.delta = delta]
           /\ stdout' = stdout \o
                 << <<"constraint",
                      bool_message(constraint_check(frame.gamma, S_YM, self.F_H))>>,
                    <<"positivity", check_message(positivity_check(delta))>> >>
    /\ trace' = trace \o <<"phase_3_mass_gap_solution", "yang_mills_action", "dblquad">>
    /\ pc' = "S_HYM"
    /\ UNCHANGED <<globals, self, quad_err, phase4, results>>

\* S_HYM = self.yang_mills_action() + self.F_H * gamma + delta, line 142.
compute_S_HYM ==
    /\ pc = "S_HYM"
    /\ frame' = [frame EXCEPT
                   !.S_HYM = hym_action(globals, quad_err, self.F_H, frame.gamma, frame.delta)]
    /\ trace' = trace \o <<"yang_mills_action", "dblquad">>
    /\ pc' = "phase_4"
    /\ UNCHANGED <<globals, self, quad_err, phase4, results, stdout>>

\* K = self.phase_4_sobolev_boundary(S_HYM, delta), lines 95-122 and 143.
phase_4_sobolev_boundary ==
    /\ pc = "phase_4"
    /\ phase4' = [K |-> sobolev_K, C |-> stabilization_C,
                  sobolev_bound |-> sobolev_bound(frame.S_HYM)]
    /\ globals' = phase_4_globals(globals, stabilization_C)
    /\ frame' = [frame EXCEPT !.K = sobolev_K]
    /\ stdout' = Append(stdout,
                   <<"sobolev", check_message(sobolev_check(sobolev_K, frame.S_HYM))>>)
    /\ trace' = Append(trace, "phase_4_sobolev_boundary")
    /\ pc' = "hash"
    /\ UNCHANGED <<self, quad_err, results>>

\* qledger_hash = self.generate_quantum_ledger_hash(...), lines 124-128, 146.
compute_hash ==
    /\ pc = "hash"
    /\ frame' = [frame EXCEPT
                   !.qledger_hash =
                       generate_quantum_ledger_hash(self.F_H, frame.gamma, frame.delta, frame.K)]
    /\ trace' = Append(trace, "generate_quantum_ledger_hash")
    /\ pc' = "return"
    /\ UNCHANGED <<globals, self, quad_err, phase4, results, stdout>>

\* return {...}, lines 164-172; results = ..., line 176.
return_results ==
    /\ pc = "return"
    /\ results' = <<result_record(self.F_H, frame)>>
    /\ trace' = Append(trace, "return")
    /\ pc' = "banner"
    /\ UNCHANGED <<globals, self, quad_err, frame, phase4, stdout>>

\* The closing lines of the main block, lines 178-181; the process exits.
print_banner ==
    /\ pc = "banner"
    /\ stdout' = Append(stdout, <<"banner", final_banner(results[1])>>)
    /\ pc' = "exit"
    /\ UNCHANGED <<globals, self, quad_err, frame, phase4, results, trace>>

Next ==
    \/ construct
    \/ phase_1_regulator_energy_floor
    \/ phase_2_damping_coefficient
    \/ phase_3_mass_gap_solution
    \/ compute_S_HYM
    \/ phase_4_sobolev_boundary
    \/ compute_hash
    \/ return_results
    \/ print_banner

Spec == Init /\ [][Next]_vars

\* The positions of a run, from the construction to the exit.
RunPositions ==
    {"construct", "phase_1", "phase_2", "phase_3", "S_HYM", "phase_4", "hash",
     "return", "banner", "exit"}

\* The interpreter executes the next statement: every step of Next leaves
\* its position, and one can be taken at every position but the exit.
Advance == pc \in RunPositions \ {"exit"} /\ pc' \in RunPositions \ {pc}

\* The interpreter runs the process to its end: while a statement remains,
\* one is executed.
FairSpec == Spec /\ WF_pc(Advance)

(***************************************************************************)
(* generate_quantum_ledger_hash on its own: the call of line 146 made on   *)
(* tuples of scalars drawn from small sets, beside the ones a run reaches. *)
(***************************************************************************)
F_HValues == {harding_identity(module_globals), Lit(25, -1)}

gammaValues == {FInt(1), fsub(FInt(1), ErrStep(1)), Lit(1000001, -6), Lit(5, -1)}

deltaValues == {mass_gap(module_globals, harding_identity(module_globals), FInt(1)),
                fneg(Lit(1, -40))}

KValues == {sobolev_K, sobolev_K_reordered, Lit(245, -2)}

S_HYMValues == {FInt(4), FInt(1)}

HashInit ==
    /\ pc = "hash"
    /\ globals = module_globals
    /\ \E F \in F_HValues : self = [S_H |-> F, F_H |-> F]
    /\ quad_err = FZero
    /\ \E gm \in gammaValues, d \in deltaValues, k \in KValues, S \in S_HYMValues :
          frame = [gamma |-> gm, delta |-> d, S_HYM |-> S, K |-> k, qledger_hash |-> <<>>]
    /\ phase4 = [K |-> FZero, C |-> FZero, sobolev_bound |-> FZero]
    /\ results = <<>>
    /\ stdout = <<>>
    /\ trace = <<>>

HashSpec == HashInit /\ [][compute_hash]_vars

(***************************************************************************)
(* Properties.                                                             *)
(***************************************************************************)
\* The calls of one whole run, in order.
FullTrace ==
    <<"__init__", "phase_1_regulator_energy_floor",
      "phase_2_damping_coefficient", "dblquad",
      "phase_3_mass_gap_solution", "yang_mills_action", "dblquad",
      "yang_mills_action", "dblquad",
      "phase_4_sobolev_boundary", "generate_quantum_ledger_hash", "return">>

Count(seq, x) == Cardinality({i \in 1..Len(seq) : seq[i] = x})

Shown(tag, text) == \E i \in 1..Len(stdout) : stdout[i] = <<tag, text>>

fabs(x) == [x EXCEPT !.s = 0]

AfterPhase2 == pc \notin {"construct", "phase_1", "phase_2"}

AfterPhase3 == AfterPhase2 /\ pc # "phase_3"

AfterPhase4 == pc \in {"hash", "return", "banner", "exit"}

\* C1 as stated: a finished run has invoked the double integration exactly
\* once.
C1_IntegrationOnce == pc = "exit" => Count(trace, "dblquad") = 1

\* C1, amended: a run makes its calls in one fixed order, each phase once and
\* nothing repeated or retried, but the double integration is invoked three
\* times: by phase 2, by yang_mills_action inside phase 3, and by
\* yang_mills_action again for S_HYM, the last two between the aggregation
\* steps; then come the digest and the record.
C1_PipelineOrder ==
    /\ Len(trace) <= Len(FullTrace)
    /\ trace = SubSeq(FullTrace, 1, Len(trace))
    /\ pc = "exit" => trace = FullTrace /\ Count(trace, "dblquad") = 3

C1_Witness == pc = "exit" /\ Count(trace, "yang_mills_action") = 2

\* C2: once phase 3 has run the gap delta is strictly positive, and every
\* returned record carries it with verified true.
C2_GapPositive ==
    /\ AfterPhase3 => fgt(frame.delta, FZero)
    /\ results # <<>> => fgt(results[1].delta, FZero) /\ results[1].verified = TRUE

C2_Witness == results # <<>> /\ results[1].verified /\ flt(results[1].gamma, FInt(1))

\* C3: the K that phase 4 returns and the record stores is exactly the
\* double 2.4, whatever S_HYM and delta were.
C3_KExact ==
    /\ AfterPhase4 => frame.K = Lit(24, -1) /\ phase4.K = Lit(24, -1)
    /\ results # <<>> => results[1].K = Lit(24, -1)

C3_Witness == results # <<>> /\ results[1].K = Lit(24, -1) /\ results[1].S_HYM # FInt(4)

\* C4: the record's gamma is the value the double integration returned, and
\* its delta is EPSILON plus the product of its F_H and its gamma.
C4_RecordValues ==
    results # <<>> =>
        /\ results[1].gamma = dblquad(quad_err)
        /\ results[1].delta = fadd(EPSILON, fmul(results[1].F_H, results[1].gamma))

C4_Witness == results # <<>> /\ results[1].gamma # FInt(1) /\ results[1].delta # FZero

\* The record of a run whose integration erred by err, computed from err and
\* the constants with no comparison consulted.
RecordFor(err) ==
    LET F  == harding_identity(module_globals)
        gm == dblquad(err)
        d  == mass_gap(module_globals, F, gm)
    IN  [F_H                 |-> F,
         gamma               |-> gm,
         delta               |-> d,
         K                   |-> sobolev_K,
         S_HYM               |-> hym_action(module_globals, err, F, gm, d),
         quantum_ledger_hash |-> generate_quantum_ledger_hash(F, gm, d, sobolev_K),
         verified            |-> TRUE]

C6_ThresholdIsC ==
    AfterPhase4 => (Shown("sobolev", "VERIFIED") <=> fle(phase4.K, phase4.C))

\* C6, amended: the stabilization constant is the least norm times 1.5 (the
\* double 0.6 * 1.5, just below 0.9), but the check compares K against that
\* constant multiplied by S_HYM, and reports VERIFIED exactly when K is at
\* most the product.
C6_ThresholdIsCTimesAction ==
    AfterPhase4 =>
        /\ phase4.C = fmul(Lit(6, -1), Lit(15, -1))
        /\ phase4.sobolev_bound = fmul(phase4.C, frame.S_HYM)
        /\ Shown("sobolev", "VERIFIED") <=> fle(phase4.K, fmul(phase4.C, frame.S_HYM))

C6_Witness ==
    /\ AfterPhase4
    /\ Shown("sobolev", "VERIFIED")
    /\ flt(phase4.C, phase4.K)
    /\ flt(phase4.C, Lit(9, -1))

RecordFields == {"F_H", "gamma", "delta", "K", "S_HYM", "quantum_ledger_hash", "verified"}

\* C7: a run is never anywhere but on the one path from construction to
\* exit, and it eventually exits having returned a record with the seven
\* fields.
C7_AlwaysSucceeds ==
    /\ [](pc \in RunPositions)
    /\ <>(pc = "exit" /\ Len(results) = 1 /\ DOMAIN results[1] = RecordFields)

C7_Witness ==
    /\ pc = "exit"
    /\ Len(results) = 1
    /\ DOMAIN results[1] = RecordFields
    /\ Shown("damping", "FAILED")

\* The text and the digest of the scalars of a run whose integral is 1.0:
\* "F_H:8.08e-26|γ:1.000000|Δ:8.08e-26|K:2.40" and "99BFEC29C815EC4EC1EE".
RefStateData ==
    <<70, 95, 72, 58, 56, 46, 48, 56, 101, 45, 50, 54, 124, 206, 179, 58, 49,
      46, 48, 48, 48, 48, 48, 48, 124, 206, 148, 58, 56, 46, 48, 56, 101, 45,
      50, 54, 124, 75, 58, 50, 46, 52, 48>>

RefDigest ==
    <<57, 57, 66, 70, 69, 67, 50, 57, 67, 56, 49, 53, 69, 67, 52, 69, 67, 49, 69, 69>>

\* C8: the digest is 20 characters, each one of 0-9 or A-F, and is the first
\* 20 characters of the uppercased SHA-256 hex digest of the formatted
\* text; so tuples that format to one text get one digest, whatever S_HYM is.
C8_Digest ==
    pc = "return" =>
        LET h == frame.qledger_hash
            d == state_data(self.F_H, frame.gamma, frame.delta, frame.K)
        IN  /\ Len(h) = 20
            /\ \A i \in 1..Len(h) : h[i] \in (48..57) \cup (65..70)
            /\ h = SubSeq(upper(hexdigest(sha256(d))), 1, 20)
            /\ d = RefStateData => h = RefDigest

C8_Witness ==
    /\ pc = "return"
    /\ frame.qledger_hash = RefDigest
    /\ frame.gamma # FInt(1)
    /\ frame.K # sobolev_K
    /\ frame.S_HYM = FInt(1)

\* C9: no step changes a module-level constant, and none after __init__
\* changes S_H or F_H; the constants are the ones bound at import, also
\* after phase 4 bound its own C; and the record's F_H is the value the
\* constants alone give.
C9_Immutable ==
    /\ [][globals' = globals /\ (pc # "construct" => self' = self)]_vars
    /\ [](globals = module_globals)
    /\ [](results # <<>> => results[1].F_H = harding_identity(module_globals))

C9_Witness ==
    /\ pc = "exit"
    /\ phase4.C # FZero
    /\ phase4.C # globals.C
    /\ results[1].F_H = self.F_H
    /\ results[1].gamma # FInt(1)

\* C10: the integral of the density over the unit square is 1.0, and the
\* gamma a run computes and records is within 1e-6 of 1.0.
C10_IntegralIsOne ==
    /\ ExactIntegral = FInt(1)
    /\ AfterPhase2 => fle(fabs(fsub(frame.gamma, FInt(1))), Lit(1, -6))
    /\ results # <<>> => fle(fabs(fsub(results[1].gamma, FInt(1))), Lit(1, -6))

C10_Witness ==
    /\ results # <<>>
    /\ fgt(fabs(fsub(results[1].gamma, FInt(1))), Lit(1, -8))

=============================================================================
